---- MODULE Spec2Model ----
(***************************************************************************)
(* Model of measure_scripts/charge_hybrid.py: the galvanostatic            *)
(* charge/discharge cycle controller (conditioning step, hybrid cycling    *)
(* loop with the four stop checks, stop branch, voltage-finish stage).     *)
(*                                                                         *)
(* Voltages, currents and times are small integers (units of the smallest  *)
(* step that matters); every comparison of the script is kept as written.  *)
(* The measurement engines and the instrument handle live outside the      *)
(* script; what they do to the instrument is modelled from the design      *)
(* document and kept to the minimum the script relies on.                  *)
(***************************************************************************)
EXTENDS Integers, Sequences, FiniteSets, TLC

VARIABLES
    args,                \* parsed run configuration (immutable after Init)
    pc,                  \* position of the script
    clock,               \* time.time(); read at l.47 and l.141 only, so only the
                         \* calls made before the last read advance it
    start_time,          \* l.47
    i_sign,              \* l.44
    n,                   \* loop index of "for n in range(args.max_repeats)"
    start_with_cell_off, \* l.62 / l.82 / l.96
    leave_cell_on,       \* l.85 / l.100
    seq,                 \* HybridSequencer summary read at l.114-131
    stop,                \* l.112-149
    elapsed,             \* l.141
    msgs,                \* messages printed by the stop checks of the last boundary
    boundaries,          \* outcome of the checks at each cycle boundary so far
    hybrid_calls,        \* arguments of each rf.run_hybrid call, in order
    finish_call,         \* arguments of dt_pstatic.run (<<>> until it is called)
    trace,               \* collaborator operations issued by the script, in order
    pstat,               \* instrument: session open?, cell on/off
    loop_exit            \* how the for loop was left

vars == <<args, pc, clock, start_time, i_sign, n, start_with_cell_off,
          leave_cell_on, seq, stop, elapsed, msgs, boundaries, hybrid_calls,
          finish_call, trace, pstat, loop_exit>>

-----------------------------------------------------------------------------
(* Bounds of the model *)

MaxRepeats == 3      \* largest --max_repeats tried
VMax == 2            \* measured voltages range over -VMax..VMax
MaxTick == 1         \* a blocking call lets the clock advance by 0..MaxTick

Volts == (0 - VMax)..VMax
Ticks == 0..MaxTick
RepeatCounts == (0 - 1)..MaxRepeats
Durations == {1}
ConditionTimes == {0, 1}
StopVMins == {0 - VMax}
StopVMaxs == {VMax}
FinishVs == {0, 1}
InitCurrents == {0 - 2, 0, 2}
FinishCurrents == {0 - 2, 0, 1}
FileSuffix == <<"sfx">>

-----------------------------------------------------------------------------
(* Pure helpers of the script *)

Abs(x) == IF x < 0 THEN 0 - x ELSE x

\* np.sign
NpSign(x) == IF x > 0 THEN 1 ELSE IF x < 0 THEN 0 - 1 ELSE 0

DigitChars == <<"0", "1", "2", "3", "4", "5", "6", "7", "8", "9">>

\* l.90: "{n}" in the f-string, the decimal digits of a non-negative int
RECURSIVE DecimalStr(_)
DecimalStr(k) ==
    IF k < 10 THEN <<DigitChars[k + 1]>>
    ELSE DecimalStr(k \div 10) \o <<DigitChars[(k % 10) + 1]>>

\* variant: the cycle index is left out of the suffix
CycleSuffix_noIndex(a, k) ==
    IF a.max_repeats > 1 THEN a.file_suffix \o <<"_Cycle">>
    ELSE a.file_suffix

\* l.89-92
CycleSuffix(a, k) ==
    IF a.max_repeats > 1 THEN a.file_suffix \o <<"_Cycle">> \o DecimalStr(k)
    ELSE a.file_suffix

\* variant: the directive is never cleared after the first iteration
StartWithCellOff_keep(k, prev) == prev

\* l.95-96
StartWithCellOff(k, prev) == IF k > 0 THEN FALSE ELSE prev

\* variant: the last iteration is looked for one index too far
LeaveCellOn_offByOne(k, a, prev) == IF k = a.max_repeats THEN FALSE ELSE prev

\* l.99-100
LeaveCellOn(k, a, prev) == IF k = a.max_repeats - 1 THEN FALSE ELSE prev

\* variant: strict comparison
LowVoltageBreach_strict(s, a) == s.meas_v_min < a.stop_v_min

\* l.114
LowVoltageBreach(s, a) == s.meas_v_min <= a.stop_v_min

\* l.122
HighVoltageBreach(s, a) == s.meas_v_max >= a.stop_v_max

\* variant: strict comparison
VoltageFinishReached_strict(s, a, sgn) ==
    a.voltage_finish /\ s.meas_v_end * sgn > a.finish_v * sgn

\* variant: the comparison is not oriented by the current sign
VoltageFinishReached_unsigned(s, a, sgn) ==
    a.voltage_finish /\ s.meas_v_end >= a.finish_v

\* l.131
VoltageFinishReached(s, a, sgn) ==
    a.voltage_finish /\ s.meas_v_end * sgn >= a.finish_v * sgn

\* l.141
Elapsed(now, anchor) == now - anchor

\* variant: strict comparison
DurationExceeded_strict(el, a) == el > a.duration

\* l.142
DurationExceeded(el, a) == el >= a.duration

\* variant: the duration check does not set the flag
StopFlag_dropDuration(low, high, fin, dur) ==
    LET s0 == FALSE
        s1 == IF low THEN TRUE ELSE s0
        s2 == IF high THEN TRUE ELSE s1
        s3 == IF fin THEN TRUE ELSE s2
    IN  s3

\* l.112-149: stop starts FALSE and each true check sets it
StopFlag(low, high, fin, dur) ==
    LET s0 == FALSE
        s1 == IF low THEN TRUE ELSE s0
        s2 == IF high THEN TRUE ELSE s1
        s3 == IF fin THEN TRUE ELSE s2
        s4 == IF dur THEN TRUE ELSE s3
    IN  s4

\* variant: the checks are chained, only the first true one reports
StopMessages_firstOnly(low, high, fin, dur) ==
    IF low THEN <<"low">>
    ELSE IF high THEN <<"high">>
    ELSE IF fin THEN <<"finish">>
    ELSE IF dur THEN <<"duration">>
    ELSE <<>>

\* l.112-149: one message per true check, in the order of the checks
StopMessages(low, high, fin, dur) ==
    (IF low THEN <<"low">> ELSE <<>>) \o
    (IF high THEN <<"high">> ELSE <<>>) \o
    (IF fin THEN <<"finish">> ELSE <<>>) \o
    (IF dur THEN <<"duration">> ELSE <<>>)

\* variant: the band of a negative current is negated instead of mirrored
CurrentCutoff_negated(sgn, thresh, imax) ==
    IF sgn > 0
    THEN [i_min |-> Abs(thresh), i_max |-> Abs(imax)]
    ELSE [i_min |-> Abs(thresh) * sgn, i_max |-> Abs(imax) * sgn]

\* l.183-188
CurrentCutoff(sgn, thresh, imax) ==
    IF sgn > 0
    THEN [i_min |-> Abs(thresh), i_max |-> Abs(imax)]
    ELSE [i_min |-> Abs(imax) * sgn, i_max |-> Abs(thresh) * sgn]

-----------------------------------------------------------------------------
(* Collaborators: what a measurement does to the instrument *)

\* a running measurement holds the session open with the cell powered
PstatMeasuring == [open |-> TRUE, cell |-> "on"]

\* instrument after a measurement that was told whether to keep the cell on:
\* kept on, the session stays open; turned off, the engine may or may not
\* have closed the session (the script asks TestIsOpen for that reason)
PstatAfterRun(keep_on) ==
    IF keep_on THEN {[open |-> TRUE, cell |-> "on"]}
    ELSE {[open |-> o, cell |-> "off"] : o \in BOOLEAN}

\* instrument after the potentiostatic finish: the script sets no retention
\* flag on it, so the engine's own default decides
PstatAfterFinish ==
    {[open |-> TRUE, cell |-> "on"]} \cup
    {[open |-> o, cell |-> "off"] : o \in BOOLEAN}

\* instrument after a measurement that failed part-way: nothing is guaranteed
PstatAfterFailure ==
    {[open |-> TRUE, cell |-> "on"]} \cup
    {[open |-> o, cell |-> "off"] : o \in BOOLEAN}

\* summaries a hybrid measurement can leave in the sequencer
Summaries ==
    {[meas_v_min |-> lo, meas_v_max |-> hi, meas_v_end |-> e] :
        lo \in Volts, hi \in Volts, e \in Volts}

HybridSummaries == {s \in Summaries :
                        s.meas_v_min <= s.meas_v_end /\ s.meas_v_end <= s.meas_v_max}

-----------------------------------------------------------------------------
(* State after argument parsing and get_pstat / HybridSequencer construction *)

Configs ==
    [condition_time : ConditionTimes,
     max_repeats : RepeatCounts,
     duration : Durations,
     stop_v_min : StopVMins,
     stop_v_max : StopVMaxs,
     voltage_finish : BOOLEAN,
     finish_v : FinishVs,
     hybrid_i_init : InitCurrents,
     file_suffix : {FileSuffix}]

Init ==
    /\ args \in Configs
    /\ pc = "start"
    /\ clock = 1
    /\ start_time = 0
    /\ i_sign = 0
    /\ n = 0
    /\ start_with_cell_off = TRUE
    /\ leave_cell_on = TRUE
    /\ seq = [meas_v_min |-> 0, meas_v_max |-> 0, meas_v_end |-> 0]
    /\ stop = FALSE
    /\ elapsed = 0
    /\ msgs = <<>>
    /\ boundaries = <<>>
    /\ hybrid_calls = <<>>
    /\ finish_call = <<>>
    /\ trace = <<>>
    /\ pstat = [open |-> FALSE, cell |-> "off"]
    /\ loop_exit = "none"

-----------------------------------------------------------------------------
(* Steps of the script *)

\* l.43-47
Start ==
    /\ pc = "start"
    /\ i_sign' = NpSign(args.hybrid_i_init)
    /\ start_time' = clock
    /\ pc' = "condition"
    /\ UNCHANGED <<args, clock, n, start_with_cell_off, leave_cell_on, seq,
                   stop, elapsed, msgs, boundaries, hybrid_calls, finish_call,
                   trace, pstat, loop_exit>>

\* l.50-80: conditioning is configured and started
ConditionCall ==
    /\ pc = "condition"
    /\ args.condition_time > 0
    /\ start_with_cell_off' = FALSE
    /\ trace' = Append(trace, "condition")
    /\ pstat' = PstatMeasuring
    /\ pc' = "in_condition"
    /\ UNCHANGED <<args, clock, start_time, i_sign, n, leave_cell_on, seq,
                   stop, elapsed, msgs, boundaries, hybrid_calls, finish_call,
                   loop_exit>>

\* l.80 returns (dt_chrono.leave_cell_on = True), then l.85
ConditionReturn ==
    /\ pc = "in_condition"
    /\ \E t \in Ticks : clock' = clock + t
    /\ pstat' \in PstatAfterRun(TRUE)
    /\ leave_cell_on' = TRUE
    /\ n' = 0
    /\ pc' = "loop"
    /\ UNCHANGED <<args, start_time, i_sign, start_with_cell_off, seq, stop,
                   elapsed, msgs, boundaries, hybrid_calls, finish_call, trace,
                   loop_exit>>

\* variant: without conditioning the first iteration is told the cell is on
ConditionSkip_cellOn ==
    /\ pc = "condition"
    /\ ~(args.condition_time > 0)
    /\ start_with_cell_off' = FALSE
    /\ leave_cell_on' = TRUE
    /\ n' = 0
    /\ pc' = "loop"
    /\ UNCHANGED <<args, clock, start_time, i_sign, seq, stop, elapsed, msgs,
                   boundaries, hybrid_calls, finish_call, trace, pstat,
                   loop_exit>>

\* l.81-85
ConditionSkip ==
    /\ pc = "condition"
    /\ ~(args.condition_time > 0)
    /\ start_with_cell_off' = TRUE
    /\ leave_cell_on' = TRUE
    /\ n' = 0
    /\ pc' = "loop"
    /\ UNCHANGED <<args, clock, start_time, i_sign, seq, stop, elapsed, msgs,
                   boundaries, hybrid_calls, finish_call, trace, pstat,
                   loop_exit>>

\* variant: the loop body runs once before max_repeats is looked at
HybridCall_atLeastOnce ==
    /\ pc = "loop"
    /\ n < args.max_repeats \/ n = 0
    /\ start_with_cell_off' = StartWithCellOff(n, start_with_cell_off)
    /\ leave_cell_on' = LeaveCellOn(n, args, leave_cell_on)
    /\ hybrid_calls' = Append(hybrid_calls,
            [n |-> n,
             suffix |-> CycleSuffix(args, n),
             start_with_cell_off |-> start_with_cell_off',
             leave_cell_on |-> leave_cell_on'])
    /\ trace' = Append(trace, "hybrid")
    /\ pstat' = PstatMeasuring
    /\ pc' = "in_hybrid"
    /\ UNCHANGED <<args, clock, start_time, i_sign, n, seq, stop, elapsed, msgs,
                   boundaries, finish_call, loop_exit>>

\* variant: the start time is marked again at every iteration
HybridCall_reanchor ==
    /\ pc = "loop"
    /\ n < args.max_repeats
    /\ start_time' = clock
    /\ start_with_cell_off' = StartWithCellOff(n, start_with_cell_off)
    /\ leave_cell_on' = LeaveCellOn(n, args, leave_cell_on)
    /\ hybrid_calls' = Append(hybrid_calls,
            [n |-> n,
             suffix |-> CycleSuffix(args, n),
             start_with_cell_off |-> start_with_cell_off',
             leave_cell_on |-> leave_cell_on'])
    /\ trace' = Append(trace, "hybrid")
    /\ pstat' = PstatMeasuring
    /\ pc' = "in_hybrid"
    /\ UNCHANGED <<args, clock, i_sign, n, seq, stop, elapsed, msgs,
                   boundaries, finish_call, loop_exit>>

\* l.86-110: one more iteration, up to the call of rf.run_hybrid
HybridCall ==
    /\ pc = "loop"
    /\ n < args.max_repeats
    /\ start_with_cell_off' = StartWithCellOff(n, start_with_cell_off)
    /\ leave_cell_on' = LeaveCellOn(n, args, leave_cell_on)
    /\ hybrid_calls' = Append(hybrid_calls,
            [n |-> n,
             suffix |-> CycleSuffix(args, n),
             start_with_cell_off |-> start_with_cell_off',
             leave_cell_on |-> leave_cell_on'])
    /\ trace' = Append(trace, "hybrid")
    /\ pstat' = PstatMeasuring
    /\ pc' = "in_hybrid"
    /\ UNCHANGED <<args, clock, start_time, i_sign, n, seq, stop, elapsed, msgs,
                   boundaries, finish_call, loop_exit>>

\* rf.run_hybrid returns: the sequencer summary is refreshed
HybridReturn ==
    /\ pc = "in_hybrid"
    /\ \E t \in Ticks : clock' = clock + t
    /\ seq' \in HybridSummaries
    /\ pstat' \in PstatAfterRun(leave_cell_on)
    /\ pc' = "boundary"
    /\ UNCHANGED <<args, start_time, i_sign, n, start_with_cell_off,
                   leave_cell_on, stop, elapsed, msgs, boundaries, hybrid_calls,
                   finish_call, trace, loop_exit>>

\* l.86: range(args.max_repeats) is exhausted
LoopExhausted ==
    /\ pc = "loop"
    /\ ~(n < args.max_repeats)
    /\ loop_exit' = "exhausted"
    /\ pc' = "finish_guard"
    /\ UNCHANGED <<args, clock, start_time, i_sign, n, start_with_cell_off,
                   leave_cell_on, seq, stop, elapsed, msgs, boundaries,
                   hybrid_calls, finish_call, trace, pstat>>

\* l.112-149
StopDecision ==
    /\ pc = "boundary"
    /\ LET el == Elapsed(clock, start_time)
           low == LowVoltageBreach(seq, args)
           high == HighVoltageBreach(seq, args)
           fin == VoltageFinishReached(seq, args, i_sign)
           dur == DurationExceeded(el, args)
       IN  /\ elapsed' = el
           /\ stop' = StopFlag(low, high, fin, dur)
           /\ msgs' = StopMessages(low, high, fin, dur)
           /\ boundaries' = Append(boundaries,
                 [n |-> n, low |-> low, high |-> high, fin |-> fin, dur |-> dur,
                  stop |-> stop'])
    /\ pc' = "decide"
    /\ UNCHANGED <<args, clock, start_time, i_sign, n, start_with_cell_off,
                   leave_cell_on, seq, hybrid_calls, finish_call, trace, pstat,
                   loop_exit>>

\* variant: the stop branch ends the script instead of leaving the loop
StopBranch_exit ==
    /\ pc = "decide"
    /\ stop
    /\ IF pstat.open
       THEN /\ trace' = trace \o <<"TestIsOpen:True", "SetCell(CellOff)", "Close">>
            /\ pstat' = [open |-> FALSE, cell |-> "off"]
       ELSE /\ trace' = Append(trace, "TestIsOpen:False")
            /\ pstat' = pstat
    /\ loop_exit' = "stop"
    /\ pc' = "done"
    /\ UNCHANGED <<args, clock, start_time, i_sign, n, start_with_cell_off,
                   leave_cell_on, seq, stop, elapsed, msgs, boundaries,
                   hybrid_calls, finish_call>>

\* variant: cell-off and close are issued without asking TestIsOpen
StopBranch_noQuery ==
    /\ pc = "decide"
    /\ stop
    /\ trace' = trace \o <<"SetCell(CellOff)", "Close">>
    /\ pstat' = [open |-> FALSE, cell |-> "off"]
    /\ loop_exit' = "stop"
    /\ pc' = "finish_guard"
    /\ UNCHANGED <<args, clock, start_time, i_sign, n, start_with_cell_off,
                   leave_cell_on, seq, stop, elapsed, msgs, boundaries,
                   hybrid_calls, finish_call>>

\* l.151-156
StopBranch ==
    /\ pc = "decide"
    /\ stop
    /\ IF pstat.open
       THEN /\ trace' = trace \o <<"TestIsOpen:True", "SetCell(CellOff)", "Close">>
            /\ pstat' = [open |-> FALSE, cell |-> "off"]
       ELSE /\ trace' = Append(trace, "TestIsOpen:False")
            /\ pstat' = pstat
    /\ loop_exit' = "stop"
    /\ pc' = "finish_guard"
    /\ UNCHANGED <<args, clock, start_time, i_sign, n, start_with_cell_off,
                   leave_cell_on, seq, stop, elapsed, msgs, boundaries,
                   hybrid_calls, finish_call>>

\* variant: the loop index skips a value
Continue_skip ==
    /\ pc = "decide"
    /\ ~stop
    /\ n' = n + 2
    /\ pc' = "loop"
    /\ UNCHANGED <<args, clock, start_time, i_sign, start_with_cell_off,
                   leave_cell_on, seq, stop, elapsed, msgs, boundaries,
                   hybrid_calls, finish_call, trace, pstat, loop_exit>>

\* l.157-160, back to l.86
Continue ==
    /\ pc = "decide"
    /\ ~stop
    /\ n' = n + 1
    /\ pc' = "loop"
    /\ UNCHANGED <<args, clock, start_time, i_sign, start_with_cell_off,
                   leave_cell_on, seq, stop, elapsed, msgs, boundaries,
                   hybrid_calls, finish_call, trace, pstat, loop_exit>>

\* variant: the finish stage is also skipped when the loop ran out of repeats
FinishSkip_onExhaustion ==
    /\ pc = "finish_guard"
    /\ ~args.voltage_finish \/ loop_exit = "exhausted"
    /\ pc' = "done"
    /\ UNCHANGED <<args, clock, start_time, i_sign, n, start_with_cell_off,
                   leave_cell_on, seq, stop, elapsed, msgs, boundaries,
                   hybrid_calls, finish_call, trace, pstat, loop_exit>>

\* l.163 false
FinishSkip ==
    /\ pc = "finish_guard"
    /\ ~args.voltage_finish
    /\ pc' = "done"
    /\ UNCHANGED <<args, clock, start_time, i_sign, n, start_with_cell_off,
                   leave_cell_on, seq, stop, elapsed, msgs, boundaries,
                   hybrid_calls, finish_call, trace, pstat, loop_exit>>

\* l.163-169
FinishRest ==
    /\ pc = "finish_guard"
    /\ args.voltage_finish
    /\ trace' = Append(trace, "sleep")
    /\ pc' = "finish_call"
    /\ UNCHANGED <<args, clock, start_time, i_sign, n, start_with_cell_off,
                   leave_cell_on, seq, stop, elapsed, msgs, boundaries,
                   hybrid_calls, finish_call, pstat, loop_exit>>

\* l.171-203: cutoff band, then dt_pstatic.run is called.
\* args.finish_i_thresh and args.finish_i_max are read here and nowhere else.
FinishCall ==
    /\ pc = "finish_call"
    /\ \E thresh \in FinishCurrents, imax \in FinishCurrents :
         LET band == CurrentCutoff(i_sign, thresh, imax)
         IN  finish_call' = <<[finish_v |-> args.finish_v,
                               finish_i_thresh |-> thresh,
                               finish_i_max |-> imax,
                               i_min |-> band.i_min,
                               i_max |-> band.i_max]>>
    /\ trace' = Append(trace, "pstatic")
    /\ pstat' = PstatMeasuring
    /\ pc' = "in_pstatic"
    /\ UNCHANGED <<args, clock, start_time, i_sign, n, start_with_cell_off,
                   leave_cell_on, seq, stop, elapsed, msgs, boundaries,
                   hybrid_calls, loop_exit>>

\* dt_pstatic.run returns; the script ends
FinishReturn ==
    /\ pc = "in_pstatic"
    /\ pstat' \in PstatAfterFinish
    /\ pc' = "done"
    /\ UNCHANGED <<args, clock, start_time, i_sign, n, start_with_cell_off,
                   leave_cell_on, seq, stop, elapsed, msgs, boundaries,
                   hybrid_calls, finish_call, trace, loop_exit>>

Next ==
    \/ Start
    \/ ConditionCall
    \/ ConditionReturn
    \/ ConditionSkip
    \/ HybridCall
    \/ HybridReturn
    \/ LoopExhausted
    \/ StopDecision
    \/ StopBranch
    \/ Continue
    \/ FinishSkip
    \/ FinishRest
    \/ FinishCall
    \/ FinishReturn

Spec == Init /\ [][Next]_vars

\* the script is sequential and every measurement call returns: some step is
\* always taken until the script has ended
SpecLive == Init /\ [][Next]_vars /\ WF_vars(Next)

-----------------------------------------------------------------------------
(* Runs in which a measurement call can fail *)

\* variant: the failure is caught and the instrument powered down
HybridRaise_cleanup ==
    /\ pc = "in_hybrid"
    /\ \E t \in Ticks : clock' = clock + t
    /\ trace' = trace \o <<"SetCell(CellOff)", "Close">>
    /\ pstat' = [open |-> FALSE, cell |-> "off"]
    /\ pc' = "aborted"
    /\ UNCHANGED <<args, start_time, i_sign, n, start_with_cell_off,
                   leave_cell_on, seq, stop, elapsed, msgs, boundaries,
                   hybrid_calls, finish_call, loop_exit>>

\* l.102-110: rf.run_hybrid raises; nothing in l.33-203 catches it, so the
\* script ends there
HybridRaise ==
    /\ pc = "in_hybrid"
    /\ \E t \in Ticks : clock' = clock + t
    /\ pstat' \in PstatAfterFailure
    /\ pc' = "aborted"
    /\ UNCHANGED <<args, start_time, i_sign, n, start_with_cell_off,
                   leave_cell_on, seq, stop, elapsed, msgs, boundaries,
                   hybrid_calls, finish_call, trace, loop_exit>>

NextFail ==
    \/ Next
    \/ HybridRaise

SpecFail == Init /\ [][NextFail]_vars


-----------------------------------------------------------------------------
(* Vocabulary of the properties *)

Count(s, x) == Cardinality({i \in 1..Len(s) : s[i] = x})

\* positions of x in s
Positions(s, x) == {i \in 1..Len(s) : s[i] = x}

Finished == pc = "done"

InstrumentSafe == pstat.cell = "off" /\ ~pstat.open

\* The sequencer summary and elapsed hold the inputs of the latest boundary
\* from the moment its checks ran until the next run_hybrid call returns.
AtBoundary == pc = "decide"

AfterBoundary ==
    /\ Len(boundaries) > 0
    /\ pc \in {"decide", "loop", "in_hybrid", "finish_guard", "finish_call",
               "in_pstatic", "done"}

\* index of the iteration the latest boundary follows
LastIter == Len(boundaries) - 1

\* the four stop conditions of the latest boundary, read off its inputs
RawLow == seq.meas_v_min <= args.stop_v_min
RawHigh == seq.meas_v_max >= args.stop_v_max
RawFinish ==
    /\ args.voltage_finish
    /\ \/ args.hybrid_i_init > 0 /\ seq.meas_v_end >= args.finish_v
       \/ args.hybrid_i_init < 0 /\ seq.meas_v_end <= args.finish_v
       \/ args.hybrid_i_init = 0
RawDuration == elapsed >= args.duration
RawAny == RawLow \/ RawHigh \/ RawFinish \/ RawDuration

TypeOK ==
    /\ pc \in {"start", "condition", "in_condition", "loop", "in_hybrid",
               "boundary", "decide", "finish_guard", "finish_call",
               "in_pstatic", "done", "aborted"}
    /\ args \in Configs
    /\ stop \in BOOLEAN
    /\ pstat.open \in BOOLEAN
    /\ pstat.cell \in {"on", "off"}
    /\ loop_exit \in {"none", "stop", "exhausted"}
    /\ Len(hybrid_calls) <= MaxRepeats
    /\ Len(boundaries) <= Len(hybrid_calls)
    /\ Len(finish_call) <= 1

-----------------------------------------------------------------------------
\* C1: whenever a run ends after leaving the loop through the stop branch
\* (voltage finish enabled or not), the instrument has the cell off and the
\* session closed at the moment the run ends.
C1_StopPathLeavesInstrumentOff ==
    (Finished /\ loop_exit = "stop") => InstrumentSafe

-----------------------------------------------------------------------------
\* C2: if the low- or high-voltage breach fires at the boundary after
\* iteration k < N-1 (N = max_repeats >= 1), run_hybrid is invoked exactly
\* k+1 times in the run: no further iteration starts, the loop is left
\* through the stop branch, which issues cell-off and close, and the loop is
\* left with the session closed and the cell off.
C2_BreachEndsLoop ==
    (/\ AfterBoundary
     /\ args.max_repeats >= 1
     /\ LastIter < args.max_repeats - 1
     /\ RawLow \/ RawHigh)
    => /\ Len(hybrid_calls) = LastIter + 1
       /\ pc \notin {"loop", "in_hybrid"}
       /\ pc # "decide" =>
            /\ loop_exit = "stop"
            /\ Count(trace, "SetCell(CellOff)") = 1
            /\ Count(trace, "Close") = 1
       /\ pc = "finish_guard" => InstrumentSafe

C2_Witness ==
    /\ Finished
    /\ args.max_repeats = 3
    /\ args.voltage_finish
    /\ Len(boundaries) = 2
    /\ ~RawLow /\ RawHigh /\ ~RawFinish /\ ~RawDuration
    /\ Len(hybrid_calls) = 2

-----------------------------------------------------------------------------
\* C3: for max_repeats = N >= 1, if no stop condition is true at any cycle
\* boundary, run_hybrid is invoked exactly N times; leave_cell_on is true on
\* iterations 0..N-2 and false on iteration N-1.  (A run that ends with fewer
\* than N calls has a stop condition true at its last boundary; no run makes
\* more than N.)
C3_FullRun ==
    /\ Len(hybrid_calls) <= IF args.max_repeats >= 1 THEN args.max_repeats ELSE 0
    /\ \A i \in 1..Len(hybrid_calls) :
          /\ hybrid_calls[i].n = i - 1
          /\ hybrid_calls[i].leave_cell_on = (i - 1 < args.max_repeats - 1)
    /\ (Finished /\ args.max_repeats >= 1 /\ Len(hybrid_calls) < args.max_repeats)
          => (Len(boundaries) = Len(hybrid_calls) /\ Len(boundaries) > 0 /\ RawAny)
    /\ (AfterBoundary /\ ~RawAny /\ LastIter < args.max_repeats - 1)
          => pc \in {"decide", "loop", "in_hybrid"}

C3_Witness ==
    /\ Finished
    /\ args.max_repeats = 3
    /\ Len(hybrid_calls) = 3
    /\ \A i \in 1..Len(boundaries) : ~boundaries[i].stop
    /\ ~RawAny
    /\ hybrid_calls[1].leave_cell_on
    /\ hybrid_calls[2].leave_cell_on
    /\ ~hybrid_calls[3].leave_cell_on

-----------------------------------------------------------------------------
\* C4 (as stated): with max_repeats = 1, voltage finish disabled and
\* condition_time = 0, the run is exactly one run_hybrid call with
\* start_with_cell_off = true and leave_cell_on = false, followed by a
\* session close; conditioning and finish are never invoked.
C4_Scenario ==
    /\ args.max_repeats = 1
    /\ ~args.voltage_finish
    /\ args.condition_time = 0

C4_OneCall ==
    /\ Len(hybrid_calls) = 1
    /\ hybrid_calls[1].start_with_cell_off
    /\ ~hybrid_calls[1].leave_cell_on
    /\ trace[1] = "hybrid"
    /\ Count(trace, "hybrid") = 1
    /\ Count(trace, "condition") = 0
    /\ Count(trace, "sleep") = 0
    /\ Count(trace, "pstatic") = 0

C4_Original ==
    (Finished /\ C4_Scenario) =>
        /\ C4_OneCall
        /\ \E j \in Positions(trace, "Close") : j > 1

\* C4 (amended): in that scenario the run is exactly one run_hybrid call with
\* start_with_cell_off = true and leave_cell_on = false and neither
\* conditioning nor finish; the script closes the session afterwards (cell-off
\* first) only if a stop condition is true at that boundary and TestIsOpen
\* returned true, and issues no close otherwise.
C4_Amended ==
    (Finished /\ C4_Scenario) =>
        /\ C4_OneCall
        /\ Len(boundaries) = 1
        /\ IF RawAny
           THEN trace \in {<<"hybrid", "TestIsOpen:True", "SetCell(CellOff)", "Close">>,
                           <<"hybrid", "TestIsOpen:False">>}
           ELSE trace = <<"hybrid">>

C4_Witness ==
    /\ Finished
    /\ C4_Scenario
    /\ ~RawAny
    /\ trace = <<"hybrid">>

-----------------------------------------------------------------------------
\* C5: conditioning is invoked exactly once, before any run_hybrid call, if
\* and only if condition_time > 0; start_with_cell_off passed to iteration 0
\* is true exactly when conditioning did not run, and false on every
\* iteration with index > 0.
C5_Conditioning ==
    /\ Count(trace, "condition") <= 1
    /\ Count(trace, "condition") = 1 => args.condition_time > 0
    /\ (pc \notin {"start", "condition"} /\ args.condition_time > 0)
          => Count(trace, "condition") = 1
    /\ \A i \in Positions(trace, "condition") :
          \A j \in Positions(trace, "hybrid") : i < j
    /\ \A i \in 1..Len(hybrid_calls) :
          hybrid_calls[i].start_with_cell_off =
              (i = 1 /\ Count(trace, "condition") = 0)

C5_Witness ==
    /\ Finished
    /\ args.condition_time > 0
    /\ trace[1] = "condition"
    /\ Len(hybrid_calls) = 2
    /\ ~hybrid_calls[1].start_with_cell_off
    /\ ~hybrid_calls[2].start_with_cell_off

-----------------------------------------------------------------------------
\* C6: at every cycle boundary the stop flag is the OR of the four checks
\* (so with voltage finish disabled the end voltage alone never stops the
\* run), and the loop goes on to the next iteration exactly when all four are
\* false and an iteration remains.
C6_StopIsOr ==
    /\ AtBoundary => stop = RawAny
    /\ AfterBoundary =>
          /\ boundaries[Len(boundaries)].stop = RawAny
          /\ Len(hybrid_calls) > Len(boundaries)
                => (~RawAny /\ Len(boundaries) < args.max_repeats)
          /\ (pc \in {"loop", "in_hybrid"})
                => ~RawAny
          /\ (Finished /\ ~RawAny) => ~(Len(boundaries) < args.max_repeats)
          /\ (pc # "decide" /\ RawAny) => loop_exit = "stop"

C6_Witness ==
    /\ AtBoundary
    /\ ~args.voltage_finish
    /\ args.hybrid_i_init > 0
    /\ seq.meas_v_end > args.finish_v
    /\ ~RawLow /\ ~RawHigh /\ ~RawDuration
    /\ ~stop
    /\ Len(boundaries) = 2

-----------------------------------------------------------------------------
\* C7: with voltage finish enabled, the voltage-finish check of a boundary is
\* true for current sign +1 exactly when meas_v_end >= finish_v and for
\* current sign -1 exactly when meas_v_end <= finish_v.
C7_FinishCheckDirection ==
    (AfterBoundary /\ args.voltage_finish) =>
        LET hit == boundaries[Len(boundaries)].fin IN
        /\ (AtBoundary => (hit <=> "finish" \in {msgs[j] : j \in 1..Len(msgs)}))
        /\ args.hybrid_i_init > 0 => (hit <=> seq.meas_v_end >= args.finish_v)
        /\ args.hybrid_i_init < 0 => (hit <=> seq.meas_v_end <= args.finish_v)

C7_Witness ==
    /\ AtBoundary
    /\ args.voltage_finish
    /\ args.hybrid_i_init < 0
    /\ args.finish_v = 0
    /\ seq.meas_v_end < 0
    /\ ~RawLow /\ ~RawHigh /\ ~RawDuration
    /\ stop
    /\ msgs = <<"finish">>
    /\ Len(boundaries) = 2

C7_WitnessAbove ==
    /\ AtBoundary
    /\ args.voltage_finish
    /\ args.hybrid_i_init < 0
    /\ args.finish_v = 0
    /\ seq.meas_v_end > 0
    /\ ~stop

-----------------------------------------------------------------------------
\* C8: the cutoff band passed to the finish measurement is
\* (|finish_i_thresh|, |finish_i_max|) for a positive current sign and
\* (-|finish_i_max|, -|finish_i_thresh|) for a negative one, whatever the
\* signs of the two configured values; so for a nonzero sign and
\* |finish_i_thresh| <= |finish_i_max|, i_min <= i_max and neither bound has
\* the sign opposite to the current.
C8_CutoffBand ==
    \A i \in 1..Len(finish_call) :
        LET c == finish_call[i]
            t == IF c.finish_i_thresh < 0 THEN 0 - c.finish_i_thresh
                 ELSE c.finish_i_thresh
            m == IF c.finish_i_max < 0 THEN 0 - c.finish_i_max
                 ELSE c.finish_i_max
        IN
        /\ args.hybrid_i_init > 0 => (c.i_min = t /\ c.i_max = m)
        /\ args.hybrid_i_init < 0 => (c.i_min = 0 - m /\ c.i_max = 0 - t)
        /\ (args.hybrid_i_init > 0 /\ t <= m) =>
              (c.i_min <= c.i_max /\ c.i_min >= 0 /\ c.i_max >= 0)
        /\ (args.hybrid_i_init < 0 /\ t <= m) =>
              (c.i_min <= c.i_max /\ c.i_min <= 0 /\ c.i_max <= 0)

C8_Witness ==
    /\ Len(finish_call) = 1
    /\ args.hybrid_i_init < 0
    /\ finish_call[1].finish_i_thresh = 1
    /\ finish_call[1].finish_i_max = 0 - 2
    /\ finish_call[1].i_min = 0 - 2
    /\ finish_call[1].i_max = 0 - 1

-----------------------------------------------------------------------------
\* C9: the finish stage (rest wait, then one potentiostatic measurement at
\* finish_v) runs exactly once if voltage finish is enabled and never if it
\* is disabled, however the loop ended; it starts only after the last
\* run_hybrid call has returned, and the wait precedes the measurement.
C9_FinishStage ==
    /\ Count(trace, "sleep") <= 1
    /\ Count(trace, "pstatic") <= 1
    /\ Count(trace, "pstatic") = Len(finish_call)
    /\ Finished =>
          /\ Count(trace, "sleep") = (IF args.voltage_finish THEN 1 ELSE 0)
          /\ Count(trace, "pstatic") = (IF args.voltage_finish THEN 1 ELSE 0)
    /\ \A i \in 1..Len(finish_call) : finish_call[i].finish_v = args.finish_v
    /\ \A i \in Positions(trace, "sleep") :
          /\ \A j \in Positions(trace, "hybrid") : j < i
          /\ \A j \in Positions(trace, "pstatic") : i < j
          /\ pc \in {"finish_call", "in_pstatic", "done"}
          /\ loop_exit \in {"stop", "exhausted"}
    /\ \A j \in Positions(trace, "pstatic") :
          \E i \in Positions(trace, "sleep") : i < j

C9_Witness ==
    /\ Finished
    /\ args.voltage_finish
    /\ loop_exit = "exhausted"
    /\ Len(hybrid_calls) = 2
    /\ Count(trace, "sleep") = 1
    /\ Count(trace, "pstatic") = 1

-----------------------------------------------------------------------------
\* C10: the script issues cell-off and close only in the stop branch of a
\* cycle boundary: each at most once per run, cell-off immediately before
\* close, only after TestIsOpen returned true; when the loop ends by
\* exhausting max_repeats with no stop condition it issues neither.
C10_PowerDownOnlyOnStop ==
    /\ Count(trace, "SetCell(CellOff)") <= 1
    /\ Count(trace, "Close") <= 1
    /\ \A i \in Positions(trace, "Close") :
          /\ i >= 4
          /\ trace[i - 1] = "SetCell(CellOff)"
          /\ trace[i - 2] = "TestIsOpen:True"
          /\ trace[i - 3] = "hybrid"
    /\ \A i \in Positions(trace, "SetCell(CellOff)") :
          i < Len(trace) /\ trace[i + 1] = "Close"
    /\ \A i \in Positions(trace, "SetCell(CellOff)") \cup Positions(trace, "Close") :
          /\ loop_exit = "stop"
          /\ RawAny
    /\ loop_exit = "exhausted" =>
          /\ Count(trace, "SetCell(CellOff)") = 0
          /\ Count(trace, "Close") = 0
          /\ Count(trace, "TestIsOpen:True") = 0
          /\ Count(trace, "TestIsOpen:False") = 0

C10_Witness ==
    /\ Finished
    /\ loop_exit = "stop"
    /\ args.max_repeats = 3
    /\ Len(hybrid_calls) = 2
    /\ trace = <<"hybrid", "hybrid", "TestIsOpen:True", "SetCell(CellOff)", "Close">>

C10_WitnessExhausted ==
    /\ Finished
    /\ loop_exit = "exhausted"
    /\ Len(hybrid_calls) = 3
    /\ pstat.open

-----------------------------------------------------------------------------
\* C11: elapsed time is compared with the duration only at cycle boundaries,
\* after a run_hybrid call has returned and never during a measurement; if
\* elapsed >= duration at the boundary after iteration k, no run_hybrid call
\* with index > k occurs: the run makes exactly k+1 calls, also when
\* k < max_repeats - 1.
C11_StopsOnDuration ==
    (AfterBoundary /\ RawDuration) =>
        /\ Len(hybrid_calls) = LastIter + 1
        /\ \A i \in 1..Len(hybrid_calls) : hybrid_calls[i].n <= LastIter
        /\ pc \notin {"loop", "in_hybrid"}
        /\ pc # "decide" => loop_exit = "stop"

C11_OnlyAtBoundaries ==
    (elapsed' # elapsed \/ boundaries' # boundaries \/ stop' # stop)
        => /\ pc = "boundary" /\ pc' = "decide"
           /\ Len(boundaries') = Len(hybrid_calls)
           /\ elapsed' = clock - start_time

C11_DurationCheck == [](C11_StopsOnDuration) /\ [][C11_OnlyAtBoundaries]_vars

C11_Witness ==
    /\ Finished
    /\ args.max_repeats = 3
    /\ args.condition_time > 0
    /\ elapsed > args.duration
    /\ ~RawLow /\ ~RawHigh /\ ~RawFinish
    /\ Len(hybrid_calls) = 1

-----------------------------------------------------------------------------
\* C12: the duration check is monotonic: elapsed is measured from the single
\* anchor marked at the start of the run, so with a clock that does not go
\* back the elapsed time seen at successive boundaries never decreases, and
\* once elapsed >= duration holds at a boundary it holds from then on.
C12_ElapsedStep ==
    /\ pc # "start" => start_time' = start_time
    /\ clock' >= clock
    /\ elapsed' >= elapsed
    /\ (Len(boundaries) > 0 /\ elapsed >= args.duration)
          => elapsed' >= args'.duration

C12_DurationMonotonic == [][C12_ElapsedStep]_vars

C12_Witness ==
    /\ AtBoundary
    /\ Len(boundaries) = 3
    /\ ~boundaries[1].dur /\ ~boundaries[2].dur
    /\ elapsed = 1
    /\ RawDuration
    /\ msgs = <<"duration">>

-----------------------------------------------------------------------------
\* C13 (runs where run_hybrid can fail): if the call of iteration k raises,
\* the run ends there: the call is not retried, no later run_hybrid, wait or
\* finish measurement is invoked, and the script issues neither cell-off nor
\* close, so the instrument can be left powered.
C13_AbortState ==
    pc = "aborted" =>
        /\ trace[Len(trace)] = "hybrid"
        /\ Len(hybrid_calls) = n + 1
        /\ hybrid_calls[Len(hybrid_calls)].n = n
        /\ Len(boundaries) = n
        /\ Count(trace, "hybrid") = n + 1
        /\ Count(trace, "sleep") = 0
        /\ Count(trace, "pstatic") = 0
        /\ Count(trace, "SetCell(CellOff)") = 0
        /\ Count(trace, "Close") = 0
        /\ loop_exit = "none"

C13_AbortStep ==
    /\ pc # "aborted"
    /\ pc = "in_hybrid" => pc' \in {"boundary", "aborted"}

C13_FailureAborts == [](C13_AbortState) /\ [][C13_AbortStep]_vars

C13_Witness ==
    /\ pc = "aborted"
    /\ n = 1
    /\ args.max_repeats = 3
    /\ args.voltage_finish
    /\ hybrid_calls[1].leave_cell_on
    /\ pstat = [open |-> TRUE, cell |-> "on"]

-----------------------------------------------------------------------------
\* C14: when max_repeats > 1 the identifier passed to iteration n is the base
\* identifier followed by "_Cycle" and the index n, so no two run_hybrid calls
\* of a run get the same identifier; when max_repeats = 1 the single call
\* gets the base identifier unchanged.
DigitValue(c) == CHOOSE d \in 0..9 : DigitChars[d + 1] = c

RECURSIVE ParseDecimal(_)
ParseDecimal(ds) ==
    IF Len(ds) = 0 THEN 0 - 1
    ELSE IF Len(ds) = 1 THEN DigitValue(ds[1])
    ELSE 10 * ParseDecimal(SubSeq(ds, 1, Len(ds) - 1)) + DigitValue(ds[Len(ds)])

C14_CycleIdentifiers ==
    LET base == args.file_suffix
        b == Len(base)
    IN
    /\ \A i \in 1..Len(hybrid_calls) :
          LET sfx == hybrid_calls[i].suffix IN
          IF args.max_repeats > 1
          THEN /\ Len(sfx) > b + 1
               /\ SubSeq(sfx, 1, b) = base
               /\ sfx[b + 1] = "_Cycle"
               /\ ParseDecimal(SubSeq(sfx, b + 2, Len(sfx))) = i - 1
          ELSE sfx = base
    /\ \A i, j \in 1..Len(hybrid_calls) :
          i # j => hybrid_calls[i].suffix # hybrid_calls[j].suffix

C14_Witness ==
    /\ Len(hybrid_calls) = 3
    /\ hybrid_calls[1].suffix = <<"sfx", "_Cycle", "0">>
    /\ hybrid_calls[3].suffix = <<"sfx", "_Cycle", "2">>

C14_WitnessSingle ==
    /\ args.max_repeats = 1
    /\ Len(hybrid_calls) = 1
    /\ hybrid_calls[1].suffix = <<"sfx">>

-----------------------------------------------------------------------------
\* C15: at every cycle boundary each of the four checks is evaluated on its
\* own, with no early exit: there are as many stop messages as true checks,
\* and they come in the order low-voltage, high-voltage, voltage-finish,
\* duration.
CheckOrder == <<"low", "high", "finish", "duration">>

Rank(m) == CHOOSE r \in 1..Len(CheckOrder) : CheckOrder[r] = m

TrueChecks ==
    (IF RawLow THEN {"low"} ELSE {}) \cup
    (IF RawHigh THEN {"high"} ELSE {}) \cup
    (IF RawFinish THEN {"finish"} ELSE {}) \cup
    (IF RawDuration THEN {"duration"} ELSE {})

C15_AllChecksReported ==
    AfterBoundary =>
        /\ Len(msgs) = Cardinality(TrueChecks)
        /\ {msgs[i] : i \in 1..Len(msgs)} = TrueChecks
        /\ \A i, j \in 1..Len(msgs) : i < j => Rank(msgs[i]) < Rank(msgs[j])
        /\ LET b == boundaries[Len(boundaries)] IN
           /\ b.low = RawLow
           /\ b.high = RawHigh
           /\ b.fin = RawFinish
           /\ b.dur = RawDuration

C15_Witness ==
    /\ AtBoundary
    /\ RawLow /\ RawHigh /\ RawFinish /\ RawDuration
    /\ msgs = <<"low", "high", "finish", "duration">>

-----------------------------------------------------------------------------
\* C16: with voltage finish enabled, when the stop branch has closed the
\* session the finish measurement is still invoked on the same handle after
\* the close, and the script issues no cell-off or close after it; in every
\* run with voltage finish enabled the last instrument operation of the
\* script is the finish measurement, not a power-down.
C16_FinishAfterPowerDown ==
    /\ (Finished /\ args.voltage_finish) =>
          /\ Len(trace) >= 2
          /\ trace[Len(trace)] = "pstatic"
          /\ trace[Len(trace) - 1] = "sleep"
          /\ Len(finish_call) = 1
    /\ \A i \in Positions(trace, "pstatic") :
          \A j \in Positions(trace, "Close") \cup Positions(trace, "SetCell(CellOff)") :
              j < i
    /\ (args.voltage_finish /\ pc = "finish_guard" /\ Count(trace, "Close") = 1)
          => InstrumentSafe
    /\ pc = "in_pstatic" => (pstat.open /\ pstat.cell = "on")

C16_Witness ==
    /\ Finished
    /\ args.voltage_finish
    /\ trace = <<"hybrid", "TestIsOpen:True", "SetCell(CellOff)", "Close",
                 "sleep", "pstatic">>
    /\ pstat.cell = "on"

-----------------------------------------------------------------------------
\* C17: with max_repeats <= 0 the run is not rejected: run_hybrid is invoked
\* zero times, no stop decision is evaluated and no cell-off or close is
\* issued, while conditioning (if condition_time > 0, leaving the cell on)
\* and the finish stage (if enabled) still run.
C17_ExpectedTrace ==
    (IF args.condition_time > 0 THEN <<"condition">> ELSE <<>>) \o
    (IF args.voltage_finish THEN <<"sleep", "pstatic">> ELSE <<>>)

C17_NoRepeats ==
    args.max_repeats <= 0 =>
        /\ Len(hybrid_calls) = 0
        /\ Len(boundaries) = 0
        /\ msgs = <<>>
        /\ pc \notin {"in_hybrid", "boundary", "decide"}
        /\ loop_exit # "stop"
        /\ \A i \in 1..Len(trace) : trace[i] \in {"condition", "sleep", "pstatic"}
        /\ (pc = "loop" /\ args.condition_time > 0) =>
              (trace = <<"condition">> /\ pstat.cell = "on")
        /\ (pc = "finish_guard" /\ args.condition_time > 0) => pstat.cell = "on"
        /\ Finished => trace = C17_ExpectedTrace

C17_Witness ==
    /\ Finished
    /\ args.max_repeats < 0
    /\ args.condition_time > 0
    /\ args.voltage_finish
    /\ trace = <<"condition", "sleep", "pstatic">>

C17_WitnessCellLeftOn ==
    /\ Finished
    /\ args.max_repeats = 0
    /\ args.condition_time > 0
    /\ ~args.voltage_finish
    /\ pstat.cell = "on"

-----------------------------------------------------------------------------
\* C18: with a zero initial current (current sign 0) and voltage finish
\* enabled, the voltage-finish check is true at the first cycle boundary for
\* every end voltage and every finish_v, so the loop stops after exactly one
\* run_hybrid call, and the cutoff band passed to the finish measurement is
\* (0, 0) whatever finish_i_thresh and finish_i_max are.
C18_ZeroCurrent ==
    (args.hybrid_i_init = 0 /\ args.voltage_finish) =>
        /\ pc # "start" => i_sign = 0
        /\ Len(hybrid_calls) <= 1
        /\ Len(boundaries) <= 1
        /\ AfterBoundary =>
              /\ boundaries[1].fin
              /\ stop
              /\ "finish" \in {msgs[i] : i \in 1..Len(msgs)}
              /\ pc \notin {"loop", "in_hybrid"}
              /\ pc # "decide" => loop_exit = "stop"
        /\ (Finished /\ args.max_repeats >= 1) => Len(hybrid_calls) = 1
        /\ \A i \in 1..Len(finish_call) :
              finish_call[i].i_min = 0 /\ finish_call[i].i_max = 0

C18_Witness ==
    /\ Finished
    /\ args.hybrid_i_init = 0
    /\ args.voltage_finish
    /\ args.max_repeats = 3
    /\ seq.meas_v_end < args.finish_v
    /\ msgs = <<"finish">>
    /\ Len(hybrid_calls) = 1
    /\ finish_call[1].finish_i_thresh = 1
    /\ finish_call[1].finish_i_max = 0 - 2
    /\ finish_call[1].i_min = 0
    /\ finish_call[1].i_max = 0

-----------------------------------------------------------------------------
\* C19 (every measurement call returns): every run terminates, having made
\* at most one conditioning call, at most max_repeats run_hybrid calls with
\* consecutive cycle indices from 0, and at most one finish call, in that
\* order and never two at the same time.
InFlight == pc \in {"in_condition", "in_hybrid", "in_pstatic"}

EngineCalls == {"condition", "hybrid", "pstatic"}

C19_Order ==
    /\ Count(trace, "condition") <= 1
    /\ Count(trace, "pstatic") <= 1
    /\ Count(trace, "hybrid") = Len(hybrid_calls)
    /\ Len(hybrid_calls) <= IF args.max_repeats > 0 THEN args.max_repeats ELSE 0
    /\ \A i \in 1..Len(hybrid_calls) : hybrid_calls[i].n = i - 1
    /\ \A i \in Positions(trace, "condition") :
          \A j \in Positions(trace, "hybrid") \cup Positions(trace, "pstatic") : i < j
    /\ \A i \in Positions(trace, "hybrid") :
          \A j \in Positions(trace, "pstatic") : i < j
    /\ InFlight => trace[Len(trace)] \in EngineCalls

C19_NoOverlap ==
    (Len(trace') > Len(trace) /\ trace'[Len(trace')] \in EngineCalls)
        => (~InFlight /\ InFlight')

C19_Terminates == <>Finished /\ [](C19_Order) /\ [][C19_NoOverlap]_vars

C19_Witness ==
    /\ Finished
    /\ args.max_repeats = 3
    /\ trace = <<"condition", "hybrid", "hybrid", "hybrid", "sleep", "pstatic">>

====
